---- MODULE Spec2Model ----
(***************************************************************************)
(* A model of MediachainNode (src/unnamed/part_000): the directory client  *)
(* (register with its heartbeat loop, lookup), peer resolution             *)
(* (_lookupIfNeeded), the operations that open a connection to a peer      *)
(* (openConnection, ping, remoteNodeInfo, the query and data streams), the *)
(* inbound handlers (ping, id), the query expansion pipeline               *)
(* (remoteQueryWithDataStream over pull-paramap), and the node state they  *)
(* read (directory binding, info message, the transport's peer book).      *)
(*                                                                         *)
(* Strings are sequences of characters over a small alphabet, so that      *)
(* startsWith('/'), Multihash.fromB58String and inflateMultiaddr are       *)
(* computed from the characters of their argument.                         *)
(***************************************************************************)
EXTENDS Integers, Sequences, FiniteSets, TLC

\* ------------------------------------------------------------------ bounds
MaxStrLen == 2
MaxCalls == 1
MaxTime == 11
MaxAborts == 2
MaxReqs == 2
MaxResults == 3
MaxBodyLen == 3

\* ----------------------------------------------------------------- strings
\* "Q" stands for the characters of the base58 alphabet; "/", the multiaddr
\* marker, is a character outside it.
Chars == {"/", "Q"}
Base58Alphabet == {"Q"}
Strings == UNION {[1..n -> Chars] : n \in 0..MaxStrLen}

\* ------------------------------------------------------------------ values
\* A PeerInfo is an identity (its base58 string) and where its address came
\* from: given by the caller, the peer book, a multiaddr string, the directory.
PeerInfo(id, addr) == [id |-> id, addr |-> addr]
\* null / undefined
NoPeer == PeerInfo(<<>>, "null")

\* The identities that exist on the network.
NetPeers == {<<"Q">>}

PROTOCOLS ==
  [dir |-> [register |-> "dir.register", lookup |-> "dir.lookup"],
   node |-> [ping |-> "node.ping", id |-> "node.id",
             query |-> "node.query", data |-> "node.data"]]

\* Peer references a caller can pass: a PeerInfo object, a PeerId object, a string.
RefInfo(id) == [kind |-> "info", s |-> id, addr |-> "given"]
RefPid(id) == [kind |-> "pid", s |-> id, addr |-> "-"]
RefStr(s) == [kind |-> "str", s |-> s, addr |-> "-"]
InfoRefs == {RefInfo(p) : p \in NetPeers}
PidRefs == {RefPid(p) : p \in NetPeers}
StrRefs == {RefStr(s) : s \in Strings}
\* the multiaddr strings of the peers of the network
MultiaddrRefs == {RefStr(<<"/">> \o p) : p \in NetPeers}
\* lookup takes string | PeerId, _lookupIfNeeded takes all three shapes
LookupRefs == PidRefs \cup StrRefs
ResolveRefs == InfoRefs \cup PidRefs \cup StrRefs

\* ---------------------------------------------------------- pure functions
startsWith(s, ch) == Len(s) >= 1 /\ s[1] = ch

\* Multihash.fromB58String(s) throws on a string that is not base58
fromB58StringThrows(s) == \E i \in 1..Len(s) : s[i] \notin Base58Alphabet

\* PeerId.toB58String()
toB58String(ref) == ref.s

\* inflateMultiaddr(s): "/" followed by the base58 identity of the peer
inflateMultiaddrThrows(s) ==
  \/ ~startsWith(s, "/")
  \/ Len(s) < 2
  \/ fromB58StringThrows(Tail(s))
inflateMultiaddr(s) == PeerInfo(Tail(s), "multiaddr")

\* p2p.peerBook.getByB58String(key): the entry, or throws when there is none
getByB58StringThrows(book, key) == key \notin book
getByB58String(book, key) == PeerInfo(key, "book")

\* ------------------------------------------------------------------- state
VARIABLES
  directory,   \* this.directory: the directory binding, NoPeer when unset
  peerBook,    \* this.p2p.peerBook: identities with a live entry (transport-owned)
  calls,       \* lookup / _lookupIfNeeded calls in flight, by call slot
  regs,        \* register() calls and the heartbeat loop each one started
  now,         \* the clock, in units of TimeUnitMs
  infoMessage, \* this.infoMessage
  handlers,    \* the protocol ids given to this.p2p.handle
  inbound,     \* inbound streams of this node, by session
  ops,         \* the calls of the operations that open a connection to a peer
  exps,        \* the calls of remoteQueryWithDataStream, each with its pipeline
  thrown,      \* what the last call of setDirectory threw, "" when it returned
  cmd          \* the run of the listPeers command: its options, request and output

vars ==
  <<directory, peerBook, calls, regs, now, infoMessage, handlers, inbound, ops, exps,
    thrown, cmd>>
setVars == <<thrown>>
cmdVars == <<cmd>>
cliVars == <<ops>>
expVars == <<exps>>
regVars == <<regs, now>>
srvVars == <<infoMessage, handlers, inbound>>

CallIds == 1..MaxCalls

\* A call that has not been made.
IdleCall ==
  [op |-> "none", ref |-> RefStr(<<>>), pc |-> "idle",
   value |-> NoPeer, err |-> "", key |-> <<>>,
   dials |-> <<>>, reqs |-> <<>>, resps |-> <<>>,
   bookReads |-> 0, dirReads |-> 0]

StartCall(op, ref) == [IdleCall EXCEPT !.op = op, !.ref = ref, !.pc = "running"]

\* Promise.resolve(v) / Promise.reject(new Error(e))
PromiseResolve(call, v) == [call EXCEPT !.pc = "resolved", !.value = v]
PromiseReject(call, e) == [call EXCEPT !.pc = "rejected", !.err = e]

\* this.p2p.dialByPeerInfo(to, proto): the dial is issued, its outcome is pending
dialByPeerInfo(call, to, proto) ==
  [call EXCEPT !.pc = "dialing", !.dials = Append(@, [to |-> to, proto |-> proto])]

\* --------------------------------------------------------------- lookup
\* variant: the directory dialed is the one the node was built with
lookupViaDirectory_ConstructorBinding(call, dir) ==
  LET c1 == [call EXCEPT !.dirReads = @ + 1]
  IN  IF dir = NoPeer
        THEN PromiseReject(c1, "No known directory server, cannot lookup")
        ELSE dialByPeerInfo(c1, PeerInfo(CHOOSE p \in NetPeers : TRUE, "given"),
                            PROTOCOLS.dir.lookup)

\* lookup, lines 132-136: the directory binding, then the dial of dir.lookup
lookupViaDirectory(call, dir) ==
  LET c1 == [call EXCEPT !.dirReads = @ + 1]
  IN  IF dir = NoPeer
        THEN PromiseReject(c1, "No known directory server, cannot lookup")
        ELSE dialByPeerInfo(c1, dir, PROTOCOLS.dir.lookup)

\* variant: the directory is asked before the peer book is read
lookupViaPeerBook_DirectoryFirst(call, key, book, dir) ==
  LET c1 == [call EXCEPT !.key = key]
  IN  IF dir # NoPeer
        THEN lookupViaDirectory(c1, dir)
        ELSE IF ~getByB58StringThrows(book, key)
          THEN PromiseResolve([c1 EXCEPT !.bookReads = @ + 1], getByB58String(book, key))
          ELSE lookupViaDirectory([c1 EXCEPT !.bookReads = @ + 1], dir)

\* variant: no try/catch around the peer book, its throw rejects the call
lookupViaPeerBook_Propagates(call, key, book, dir) ==
  LET c1 == [call EXCEPT !.key = key, !.bookReads = @ + 1]
  IN  IF ~getByB58StringThrows(book, key)
        THEN PromiseResolve(c1, getByB58String(book, key))
        ELSE PromiseReject(c1, "peer book has no entry")

\* lookup, lines 126-130: the peer book; a throw is swallowed by the empty catch
lookupViaPeerBook(call, key, book, dir) ==
  LET c1 == [call EXCEPT !.key = key, !.bookReads = @ + 1]
  IN  IF ~getByB58StringThrows(book, key)
        THEN PromiseResolve(c1, getByB58String(book, key))
        ELSE lookupViaDirectory(c1, dir)

\* variant: string arguments are not validated
lookup_NoValidation(call, peerId, book, dir) ==
  lookupViaPeerBook(call, toB58String(peerId), book, dir)

\* lookup, lines 107-117, then the rest
lookup(call, peerId, book, dir) ==
  IF peerId.kind = "pid"
    THEN lookupViaPeerBook(call, toB58String(peerId), book, dir)
    ELSE IF fromB58StringThrows(peerId.s)
      THEN PromiseReject(call, "Peer id is not a valid multihash")
      ELSE lookupViaPeerBook(call, peerId.s, book, dir)

\* variant: a string that does not decode as a multiaddr is handed to lookup
lookupIfNeeded_FallsThrough(call, peer, book, dir) ==
  IF peer.kind = "info"
    THEN PromiseResolve(call, PeerInfo(peer.s, peer.addr))
    ELSE IF peer.kind = "str" /\ startsWith(peer.s, "/") /\ ~inflateMultiaddrThrows(peer.s)
      THEN PromiseResolve(call, inflateMultiaddr(peer.s))
      ELSE lookup(call, peer, book, dir)

\* _lookupIfNeeded, lines 147-163
lookupIfNeeded(call, peer, book, dir) ==
  IF peer.kind = "info"
    THEN PromiseResolve(call, PeerInfo(peer.s, peer.addr))
    ELSE IF peer.kind = "str" /\ startsWith(peer.s, "/")
      THEN IF inflateMultiaddrThrows(peer.s)
             THEN PromiseReject(call, "Peer id is not a valid multiaddr")
             ELSE PromiseResolve(call, inflateMultiaddr(peer.s))
      ELSE lookup(call, peer, book, dir)

\* variant: the request is written twice
lookupRequests_Twice(key) == <<[id |-> key], [id |-> key]>>

\* pull.values([{id: peerId}]): the requests written to the dir.lookup stream
lookupRequests(key) == <<[id |-> key]>>

\* What the directory can answer to a request for key: a record, or none.
LookupResponses(key) == {[peer |-> PeerInfo(key, "directory")], [peer |-> NoPeer]}

\* lookupResponseToPeerInfo: null when the response carries no peer
lookupResponseToPeerInfo(resp) == resp.peer

\* lines 136-144 once the dial of dir.lookup has succeeded: the pipeline writes
\* its request(s)
lookupDialed(call) ==
  [call EXCEPT !.pc = "awaiting", !.reqs = @ \o lookupRequests(call.key)]

\* the dial fails: the promise rejects with the dial's error
lookupDialFailed(call) == PromiseReject(call, "dial failed")

\* pullToPromise takes the first decoded response
lookupResponded(call, resp) ==
  PromiseResolve([call EXCEPT !.resps = Append(@, resp)], lookupResponseToPeerInfo(resp))

\* the stream fails before a response was read
lookupStreamFailed(call) == PromiseReject(call, "stream failed")

\* ------------------------------------------------------------- actions
\* node.lookup(ref): the synchronous part runs to completion
CallLookup(c, ref) ==
  /\ calls[c].pc = "idle"
  /\ calls' = [calls EXCEPT ![c] = lookup(StartCall("lookup", ref), ref, peerBook, directory)]
  /\ UNCHANGED <<directory, peerBook, regVars, srvVars, cliVars, expVars, setVars, cmdVars>>

\* node._lookupIfNeeded(ref)
CallResolve(c, ref) ==
  /\ calls[c].pc = "idle"
  /\ calls' = [calls EXCEPT ![c] =
                 lookupIfNeeded(StartCall("resolve", ref), ref, peerBook, directory)]
  /\ UNCHANGED <<directory, peerBook, regVars, srvVars, cliVars, expVars, setVars, cmdVars>>

\* the dial of dir.lookup succeeds: the pipeline writes its request(s)
LookupDialOk(c) ==
  /\ calls[c].pc = "dialing"
  /\ calls' = [calls EXCEPT ![c] = lookupDialed(@)]
  /\ UNCHANGED <<directory, peerBook, regVars, srvVars, cliVars, expVars, setVars, cmdVars>>

\* the dial fails: the promise rejects with the dial's error
LookupDialFail(c) ==
  /\ calls[c].pc = "dialing"
  /\ calls' = [calls EXCEPT ![c] = lookupDialFailed(@)]
  /\ UNCHANGED <<directory, peerBook, regVars, srvVars, cliVars, expVars, setVars, cmdVars>>

\* the directory answers; pullToPromise takes the first decoded response
LookupResponse(c, resp) ==
  /\ calls[c].pc = "awaiting"
  /\ calls' = [calls EXCEPT ![c] = lookupResponded(@, resp)]
  /\ UNCHANGED <<directory, peerBook, regVars, srvVars, cliVars, expVars, setVars, cmdVars>>

\* the stream fails before a response was read
LookupStreamError(c) ==
  /\ calls[c].pc = "awaiting"
  /\ calls' = [calls EXCEPT ![c] = lookupStreamFailed(@)]
  /\ UNCHANGED <<directory, peerBook, regVars, srvVars, cliVars, expVars, setVars, cmdVars>>

\* the caller has its result; the slot is free for the next call
CallReturn(c) ==
  /\ calls[c].pc \in {"resolved", "rejected"}
  /\ calls' = [calls EXCEPT ![c] = IdleCall]
  /\ UNCHANGED <<directory, peerBook, regVars, srvVars, cliVars, expVars, setVars, cmdVars>>

\* setDirectory, line 72: inflateMultiaddr throws on a string it cannot decode,
\* and nothing in setDirectory catches it
ErrInflate == "inflateMultiaddr threw"
setDirectoryThrows(dirInfo) == dirInfo.kind = "str" /\ inflateMultiaddrThrows(dirInfo.s)

\* variant: the binding is dropped before the string is decoded
setDirectory_ClearsFirst(dir, dirInfo) ==
  IF dirInfo.kind = "str"
    THEN IF inflateMultiaddrThrows(dirInfo.s) THEN NoPeer ELSE inflateMultiaddr(dirInfo.s)
    ELSE PeerInfo(dirInfo.s, dirInfo.addr)

\* setDirectory, lines 70-75: a string is inflated first, and a throw leaves
\* the binding as it was
setDirectory(dir, dirInfo) ==
  IF dirInfo.kind = "str"
    THEN IF inflateMultiaddrThrows(dirInfo.s) THEN dir ELSE inflateMultiaddr(dirInfo.s)
    ELSE PeerInfo(dirInfo.s, dirInfo.addr)

SetDirectory(dirInfo) ==
  /\ directory' = setDirectory(directory, dirInfo)
  /\ thrown' = IF setDirectoryThrows(dirInfo) THEN ErrInflate ELSE ""
  /\ UNCHANGED <<peerBook, calls, regVars, srvVars, cliVars, expVars, cmdVars>>

\* The transport opens / closes a multiplex connection to p: the peer book
\* gains / loses p's entry.
PeerConnected(p) ==
  /\ p \notin peerBook
  /\ peerBook' = peerBook \cup {p}
  /\ UNCHANGED <<directory, calls, regVars, srvVars, cliVars, expVars, setVars, cmdVars>>

PeerDisconnected(p) ==
  /\ p \in peerBook
  /\ peerBook' = peerBook \ {p}
  /\ UNCHANGED <<directory, calls, regVars, srvVars, cliVars, expVars, setVars, cmdVars>>

\* ------------------------------------------------------------- register
\* One register() call and the loop it started are followed at a time: a call
\* closes over its own abortable, request and connection (lines 86-92), so the
\* loops of different calls share no state.
RegIds == {"r1"}

\* The clock counts minutes.
TimeUnitMs == 60 * 1000

\* variant: 1000 * 60 for 5000 * 60
HeartbeatInterval_OneMinute == (1000 * 60) \div TimeUnitMs

\* pullRepeatedly(req, 5000 * 60): the interval, in clock units
HeartbeatInterval == (5000 * 60) \div TimeUnitMs

\* A register() call that has not been made.
IdleReg ==
  [pc |-> "idle", value |-> FALSE, err |-> "", returned |-> {},
   dials |-> <<>>,
   abortable |-> "none", aborts |-> 0,
   conn |-> "none", loop |-> "none",
   sent |-> 0, start |-> 0, nextDue |-> 0, endNotes |-> 0]

\* variant: the binding is not checked
register_NoDirectoryCheck(reg, dir) ==
  [reg EXCEPT !.abortable = "live",
              !.pc = "dialing",
              !.dials = Append(@, [to |-> dir, proto |-> PROTOCOLS.dir.register])]

\* register, lines 81-92: the binding, the abortable, the dial of dir.register
register(reg, dir) ==
  IF dir = NoPeer
    THEN [reg EXCEPT !.pc = "rejected",
                     !.err = "No known directory server, cannot register"]
    ELSE [reg EXCEPT !.abortable = "live",
                     !.pc = "dialing",
                     !.dials = Append(@, [to |-> dir, proto |-> PROTOCOLS.dir.register])]

\* pullRepeatedly: the first value at once, each further one an interval after
\* the one before it; nothing once the abortable downstream has been aborted
startHeartbeat(reg, t) ==
  IF reg.abortable = "aborted"
    THEN [reg EXCEPT !.loop = "ended"]
    ELSE [reg EXCEPT !.loop = "running", !.sent = 1, !.start = t,
                     !.nextDue = t + HeartbeatInterval]

\* variant: the promise is left pending until the pipeline ends
registerConnected_AwaitsLoop(reg, t) ==
  startHeartbeat([reg EXCEPT !.conn = "open"], t)

\* register, lines 93-104: the dial succeeded; the pipeline is started and the
\* promise resolves to true
registerConnected(reg, t) ==
  [startHeartbeat([reg EXCEPT !.conn = "open"], t)
     EXCEPT !.pc = "resolved", !.value = TRUE, !.returned = {"true"}]

\* the promise of a failed dial: the then-callback never runs
registerDialFailed(reg) == [reg EXCEPT !.pc = "rejected", !.err = "dial failed"]

\* the timer of pullRepeatedly fires: one more message through the pipeline
heartbeatTick(reg, t) ==
  [reg EXCEPT !.sent = @ + 1, !.nextDue = t + HeartbeatInterval]

\* abortable.abort(): the source side of the pipeline ends; a second call
\* finds it ended
abort(reg) ==
  [reg EXCEPT !.abortable = "aborted", !.aborts = @ + 1,
              !.loop = IF @ = "running" THEN "ended" ELSE @]

\* variant: the source keeps being read after the connection ended
connectionEnded_LoopGoesOn(reg) ==
  [reg EXCEPT !.conn = "closed", !.endNotes = @ + 1]

\* lines 98-101: the connection ends; conn stops reading the pipeline and
\* pull.onEnd logs 'registration connection ended'
connectionEnded(reg) ==
  [reg EXCEPT !.conn = "closed", !.endNotes = @ + 1,
              !.loop = IF @ = "running" THEN "ended" ELSE @]

\* node.register()
CallRegister(r) ==
  /\ regs[r].pc = "idle"
  /\ regs' = [regs EXCEPT ![r] = register(IdleReg, directory)]
  /\ UNCHANGED <<directory, peerBook, calls, now, srvVars, cliVars, expVars, setVars, cmdVars>>

RegisterDialOk(r) ==
  /\ regs[r].pc = "dialing"
  /\ regs' = [regs EXCEPT ![r] = registerConnected(@, now)]
  /\ UNCHANGED <<directory, peerBook, calls, now, srvVars, cliVars, expVars, setVars, cmdVars>>

RegisterDialFail(r) ==
  /\ regs[r].pc = "dialing"
  /\ regs' = [regs EXCEPT ![r] = registerDialFailed(@)]
  /\ UNCHANGED <<directory, peerBook, calls, now, srvVars, cliVars, expVars, setVars, cmdVars>>

HeartbeatTick(r) ==
  /\ regs[r].loop = "running"
  /\ now >= regs[r].nextDue
  /\ regs' = [regs EXCEPT ![r] = heartbeatTick(@, now)]
  /\ UNCHANGED <<directory, peerBook, calls, now, srvVars, cliVars, expVars, setVars, cmdVars>>

\* whoever holds the abortable aborts it
Abort(r) ==
  /\ regs[r].abortable # "none"
  /\ regs[r].aborts < MaxAborts
  /\ regs' = [regs EXCEPT ![r] = abort(@)]
  /\ UNCHANGED <<directory, peerBook, calls, now, srvVars, cliVars, expVars, setVars, cmdVars>>

\* the registration connection drops or is closed by the directory
ConnectionEnd(r) ==
  /\ regs[r].conn = "open"
  /\ regs' = [regs EXCEPT ![r] = connectionEnded(@)]
  /\ UNCHANGED <<directory, peerBook, calls, now, srvVars, cliVars, expVars, setVars, cmdVars>>

\* a finished call whose loop is over is forgotten; the caller may register again
RegisterForget(r) ==
  /\ regs[r].pc \in {"resolved", "rejected"}
  /\ regs[r].loop # "running"
  /\ regs[r].conn # "open"
  /\ regs' = [regs EXCEPT ![r] = IdleReg]
  /\ UNCHANGED <<directory, peerBook, calls, now, srvVars, cliVars, expVars, setVars, cmdVars>>

\* Time passes once a register call has resolved, never past a timer that is
\* due.
Tick ==
  /\ now < MaxTime
  /\ \E r \in RegIds : regs[r].pc = "resolved"
  /\ \A r \in RegIds : regs[r].loop = "running" => now < regs[r].nextDue
  /\ now' = now + 1
  /\ UNCHANGED <<directory, peerBook, calls, regs, srvVars, cliVars, expVars, setVars, cmdVars>>

\* ------------------------------------------------------- inbound handlers
\* One inbound stream is followed at a time: a handler call closes over its
\* own conn (lines 185, 194), and streams share only this.infoMessage.
SessIds == {"s1"}

DEFAULT_INFO_MESSAGE == "(aleph)"
InfoMessages == {DEFAULT_INFO_MESSAGE, "m1", "m2"}

\* this.peerInfo.id.toB58String(): the node's own identity
SelfId == <<"Q", "Q">>

NodeProtocols ==
  {PROTOCOLS.node.ping, PROTOCOLS.node.id, PROTOCOLS.node.query, PROTOCOLS.node.data}

\* message bodies
Pong == [kind |-> "Pong", peer |-> <<>>, info |-> ""]
NodeInfo(peer, info) == [kind |-> "NodeInfo", peer |-> peer, info |-> info]
NoResponse == [kind |-> "none", peer |-> <<>>, info |-> ""]

\* A stream nobody has opened. inbox: the numbers of the request frames
\* written by the client and not yet decoded; out: the replies written.
NoSession ==
  [proto |-> "", state |-> "none", response |-> NoResponse,
   written |-> 0, inbox |-> <<>>, decoded |-> 0, out |-> <<>>]

\* variant: only the ping handler is registered
constructorHandlers_PingOnly == {PROTOCOLS.node.ping}

\* constructor, lines 54-55: the protocols given to p2p.handle
constructorHandlers == {PROTOCOLS.node.ping, PROTOCOLS.node.id}

\* setInfoMessage, lines 77-79
setInfoMessage(message) == message

\* pingHandler, lines 185-192, called with the new stream
pingHandler(proto) == [NoSession EXCEPT !.proto = proto, !.state = "open"]

\* variant: the info string is the one the node was built with
idHandler_DefaultInfo(proto, self, info) ==
  [NoSession EXCEPT !.proto = proto, !.state = "open",
                    !.response = NodeInfo(self, DEFAULT_INFO_MESSAGE)]

\* idHandler, lines 194-198, called with the new stream: the response is built
\* here, from this.infoMessage as it is now
idHandler(proto, self, info) ==
  [NoSession EXCEPT !.proto = proto, !.state = "open",
                    !.response = NodeInfo(self, info)]

\* the transport hands a new inbound stream to the handler of its protocol;
\* a protocol without a handler is refused
acceptStream(hs, proto, self, info) ==
  IF proto \notin hs
    THEN [NoSession EXCEPT !.proto = proto, !.state = "refused"]
    ELSE IF proto = PROTOCOLS.node.ping
      THEN pingHandler(proto)
      ELSE idHandler(proto, self, info)

\* lines 186-191: one request is decoded and encoded again as a Pong
pingReply(sess) ==
  IF sess.inbox = <<>>
    THEN sess
    ELSE [sess EXCEPT !.inbox = Tail(@), !.decoded = @ + 1,
                      !.out = Append(@, [re |-> Head(sess.inbox), body |-> Pong])]

\* lines 200-206: one request is decoded and answered with the response built
\* when the handler was called
idReply(sess) ==
  IF sess.inbox = <<>>
    THEN sess
    ELSE [sess EXCEPT !.inbox = Tail(@), !.decoded = @ + 1,
                      !.out = Append(@, [re |-> Head(sess.inbox), body |-> sess.response])]

handlerReply(sess) ==
  IF sess.proto = PROTOCOLS.node.ping THEN pingReply(sess) ELSE idReply(sess)

\* a client's request frame arrives
clientWrites(sess) ==
  [sess EXCEPT !.written = @ + 1, !.inbox = Append(@, sess.written + 1)]

SetInfoMessage(m) ==
  /\ infoMessage' = setInfoMessage(m)
  /\ UNCHANGED <<directory, peerBook, calls, regVars, handlers, inbound, cliVars, expVars, setVars, cmdVars>>

InboundStream(s, proto) ==
  /\ inbound[s].state = "none"
  /\ inbound' = [inbound EXCEPT ![s] = acceptStream(handlers, proto, SelfId, infoMessage)]
  /\ UNCHANGED <<directory, peerBook, calls, regVars, infoMessage, handlers, cliVars, expVars, setVars, cmdVars>>

InboundRequest(s) ==
  /\ inbound[s].state = "open"
  /\ inbound[s].written < MaxReqs
  /\ inbound' = [inbound EXCEPT ![s] = clientWrites(@)]
  /\ UNCHANGED <<directory, peerBook, calls, regVars, infoMessage, handlers, cliVars, expVars, setVars, cmdVars>>

HandlerReply(s) ==
  /\ inbound[s].state = "open"
  /\ handlerReply(inbound[s]) # inbound[s]
  /\ inbound' = [inbound EXCEPT ![s] = handlerReply(@)]
  /\ UNCHANGED <<directory, peerBook, calls, regVars, infoMessage, handlers, cliVars, expVars, setVars, cmdVars>>

InboundClose(s) ==
  /\ inbound[s].state # "none"
  /\ inbound' = [inbound EXCEPT ![s] = NoSession]
  /\ UNCHANGED <<directory, peerBook, calls, regVars, infoMessage, handlers, cliVars, expVars, setVars, cmdVars>>

\* ------------------------------------------------ connections to a peer
\* One operation is followed at a time: each call has its own promise chain and
\* its own stream, and calls share only the directory binding and the peer book.
OpIds == {"o1"}

\* the operations that open a connection, and the protocol each one dials
OpNames ==
  {"ping", "remoteNodeInfo", "remoteQueryStream", "remoteQuery",
   "remoteDataStream", "remoteData", "remoteQueryWithDataStream", "remoteQueryWithData"}

OpProtocol(op) ==
  CASE op = "ping" -> PROTOCOLS.node.ping
    [] op = "remoteNodeInfo" -> PROTOCOLS.node.id
    [] op \in {"remoteDataStream", "remoteData"} -> PROTOCOLS.node.data
    [] OTHER -> PROTOCOLS.node.query

\* the operations whose promise resolves to the stream itself
StreamOps == {"remoteQueryStream", "remoteDataStream", "remoteQueryWithDataStream"}

\* openConnection's promise: res is the promise of _lookupIfNeeded
NoConn == [proto |-> "", res |-> IdleCall, pc |-> "idle", err |-> "", dials |-> <<>>]

ErrUnableToLocate == "Unable to locate peer"

\* variant: the resolved value is dialed without looking at it
openConnectionThen_NoNullCheck(conn) ==
  IF conn.res.pc = "resolved"
    THEN [conn EXCEPT !.pc = "dialing",
                      !.dials = Append(@, [to |-> conn.res.value, proto |-> conn.proto])]
    ELSE IF conn.res.pc = "rejected"
      THEN [conn EXCEPT !.pc = "rejected", !.err = conn.res.err]
      ELSE [conn EXCEPT !.pc = "resolving"]

\* openConnection, lines 167-171: the two then-callbacks, which run as soon as
\* the promise of _lookupIfNeeded has settled
openConnectionThen(conn) ==
  IF conn.res.pc = "resolved"
    THEN IF conn.res.value = NoPeer
           THEN [conn EXCEPT !.pc = "rejected", !.err = ErrUnableToLocate]
           ELSE [conn EXCEPT !.pc = "dialing",
                             !.dials = Append(@, [to |-> conn.res.value, proto |-> conn.proto])]
    ELSE IF conn.res.pc = "rejected"
      THEN [conn EXCEPT !.pc = "rejected", !.err = conn.res.err]
      ELSE [conn EXCEPT !.pc = "resolving"]

\* openConnection, lines 165-172
openConnection(peer, proto, book, dir) ==
  openConnectionThen(
    [NoConn EXCEPT !.proto = proto,
                   !.res = lookupIfNeeded(StartCall("resolve", peer), peer, book, dir)])

\* the dial of the target protocol succeeds / fails
connDialed(conn) == [conn EXCEPT !.pc = "open"]
connDialFailed(conn) == [conn EXCEPT !.pc = "rejected", !.err = "dial failed"]

\* A call of an operation. written: the requests its pipeline has written;
\* sess: the far end of its stream; read: the responses it has read.
IdleOp ==
  [op |-> "none", conn |-> NoConn, pc |-> "idle", written |-> 0,
   sess |-> NoSession, read |-> 0, value |-> "", err |-> ""]

\* the operation's promise follows openConnection's while no stream is open
opFollows(o) ==
  IF o.conn.pc = "rejected"
    THEN [o EXCEPT !.pc = "rejected", !.err = o.conn.err]
    ELSE [o EXCEPT !.pc = "connecting"]

\* variant: the request is written twice
opRequests_Twice(op) == 2

\* pull.values([{}]) (line 177), pull.once (lines 212, 223, 260): the request
\* frames an operation writes
opRequests(op) == 1

\* lines 174-183, 209-266 once the stream is open: the request is written; an
\* operation that returns the stream resolves now
opConnected(o) ==
  LET o1 == [o EXCEPT !.conn = connDialed(@), !.written = opRequests(o.op)]
  IN  IF o.op \in StreamOps
        THEN [o1 EXCEPT !.pc = "resolved", !.value = "stream"]
        ELSE IF o.op = "ping"
          THEN [o1 EXCEPT !.pc = "awaiting",
                          !.sess = [pingHandler(o.conn.proto) EXCEPT
                                      !.written = o1.written,
                                      !.inbox = [i \in 1..o1.written |-> i]]]
          ELSE [o1 EXCEPT !.pc = "awaiting"]

\* lines 176-182: pullToPromise resolves with the first value of
\* pull.map(_ => true), that is, once one Pong has been decoded
pingResolves(o) ==
  IF o.sess.out = <<>>
    THEN o
    ELSE [o EXCEPT !.pc = "resolved", !.value = "true", !.read = @ + 1,
                   !.sess.out = Tail(@)]

CallOp(o, op, peer) ==
  /\ ops[o].pc = "idle"
  /\ ops' = [ops EXCEPT ![o] =
               opFollows([IdleOp EXCEPT !.op = op,
                            !.conn = openConnection(peer, OpProtocol(op), peerBook, directory)])]
  /\ UNCHANGED <<directory, peerBook, calls, regVars, srvVars, expVars, setVars, cmdVars>>

\* the lookup that _lookupIfNeeded started goes on
OpLookupDialOk(o) ==
  /\ ops[o].pc = "connecting" /\ ops[o].conn.res.pc = "dialing"
  /\ ops' = [ops EXCEPT ![o].conn.res = lookupDialed(@)]
  /\ UNCHANGED <<directory, peerBook, calls, regVars, srvVars, expVars, setVars, cmdVars>>

OpLookupDialFail(o) ==
  /\ ops[o].pc = "connecting" /\ ops[o].conn.res.pc = "dialing"
  /\ ops' = [ops EXCEPT ![o] =
               opFollows([@ EXCEPT !.conn =
                 openConnectionThen([@ EXCEPT !.res = lookupDialFailed(@)])])]
  /\ UNCHANGED <<directory, peerBook, calls, regVars, srvVars, expVars, setVars, cmdVars>>

OpLookupResponse(o, resp) ==
  /\ ops[o].pc = "connecting" /\ ops[o].conn.res.pc = "awaiting"
  /\ ops' = [ops EXCEPT ![o] =
               opFollows([@ EXCEPT !.conn =
                 openConnectionThen([@ EXCEPT !.res = lookupResponded(@, resp)])])]
  /\ UNCHANGED <<directory, peerBook, calls, regVars, srvVars, expVars, setVars, cmdVars>>

OpLookupStreamError(o) ==
  /\ ops[o].pc = "connecting" /\ ops[o].conn.res.pc = "awaiting"
  /\ ops' = [ops EXCEPT ![o] =
               opFollows([@ EXCEPT !.conn =
                 openConnectionThen([@ EXCEPT !.res = lookupStreamFailed(@)])])]
  /\ UNCHANGED <<directory, peerBook, calls, regVars, srvVars, expVars, setVars, cmdVars>>

\* the dial of the operation's protocol succeeds / fails
OpDialOk(o) ==
  /\ ops[o].pc = "connecting" /\ ops[o].conn.pc = "dialing"
  /\ ops' = [ops EXCEPT ![o] = opConnected(@)]
  /\ UNCHANGED <<directory, peerBook, calls, regVars, srvVars, expVars, setVars, cmdVars>>

OpDialFail(o) ==
  /\ ops[o].pc = "connecting" /\ ops[o].conn.pc = "dialing"
  /\ ops' = [ops EXCEPT ![o] = opFollows([@ EXCEPT !.conn = connDialFailed(@)])]
  /\ UNCHANGED <<directory, peerBook, calls, regVars, srvVars, expVars, setVars, cmdVars>>

\* the peer's ping handler answers on the operation's stream
PeerPingReply(o) ==
  /\ ops[o].pc = "awaiting" /\ ops[o].op = "ping"
  /\ pingReply(ops[o].sess) # ops[o].sess
  /\ ops' = [ops EXCEPT ![o].sess = pingReply(@)]
  /\ UNCHANGED <<directory, peerBook, calls, regVars, srvVars, expVars, setVars, cmdVars>>

\* ping reads the acknowledgment
PingResponse(o) ==
  /\ ops[o].pc = "awaiting" /\ ops[o].op = "ping"
  /\ pingResolves(ops[o]) # ops[o]
  /\ ops' = [ops EXCEPT ![o] = pingResolves(@)]
  /\ UNCHANGED <<directory, peerBook, calls, regVars, srvVars, expVars, setVars, cmdVars>>

\* the other operations read what the peer sent and resolve
OpResponse(o) ==
  /\ ops[o].pc = "awaiting" /\ ops[o].op # "ping"
  /\ ops' = [ops EXCEPT ![o].pc = "resolved", ![o].value = "result", ![o].read = @ + 1]
  /\ UNCHANGED <<directory, peerBook, calls, regVars, srvVars, expVars, setVars, cmdVars>>

\* the stream fails before the operation has its result
OpStreamError(o) ==
  /\ ops[o].pc = "awaiting"
  /\ ops' = [ops EXCEPT ![o].pc = "rejected", ![o].err = "stream failed"]
  /\ UNCHANGED <<directory, peerBook, calls, regVars, srvVars, expVars, setVars, cmdVars>>

\* the caller has its result; the slot is free for the next call
OpReturn(o) ==
  /\ ops[o].pc \in {"resolved", "rejected"}
  /\ ops' = [ops EXCEPT ![o] = IdleOp]
  /\ UNCHANGED <<directory, peerBook, calls, regVars, srvVars, expVars, setVars, cmdVars>>

\* ------------------------------------------------------- query expansion
\* One call of remoteQueryWithDataStream is followed at a time.
ExpIds == {"q1"}

\* A query result is known by its position in the stream and by what it holds:
\* no value, a value that names no object, a value that names objects.
ElementKinds == {"novalue", "noids", "ids"}
Streams(kinds) == UNION {[1..n -> kinds] : n \in 0..MaxResults}

\* objectIdsForQueryResult(result): the object ids named by the value of the
\* i-th result
objectIdsForQueryResult(i, kind) == IF kind = "ids" THEN {<<i, 1>>, <<i, 2>>} ELSE {}

\* What the pipeline hands on for the i-th result: the result as it came
\* (queryResult), its value alone (queryResult.value), or the outcome of
\* expandQueryResult.
Envelope(i) == [of |-> i, shape |-> "queryResult"]
Value(i) == [of |-> i, shape |-> "value"]
Expanded(i) == [of |-> i, shape |-> "expanded"]
Undefined == [of |-> 0, shape |-> "undefined"]

\* remoteData(peer, objectIds) for one result: its connection and the
\* requests written on it
NoFetch == [conn |-> NoConn, pc |-> "none", reqs |-> <<>>]

\* The call and its pipeline. conn: the connection of remoteQueryStream;
\* input: the results the peer sends; the rest is paramap's state: arrived (i),
\* delivered (j), seen, error, ended, started, pulling (a read is waiting).
IdleExp ==
  [pc |-> "idle", peer |-> RefStr(<<>>), conn |-> NoConn, err |-> "", written |-> 0,
   input |-> <<>>, arrived |-> 0, ended |-> FALSE, started |-> FALSE,
   fetch |-> <<>>, seen |-> <<>>, error |-> FALSE,
   delivered |-> 0, pulling |-> FALSE, output |-> <<>>, terminal |-> "none"]

\* pull-paramap, drain: a waiting read is answered with the recorded error if
\* there is one, else with the next result in input order if its callback has
\* run, else with the end once everything before it was handed on
drain(e) ==
  IF ~e.pulling
    THEN e
    ELSE IF e.error
      THEN [e EXCEPT !.pulling = FALSE, !.terminal = "error"]
      ELSE IF e.delivered < e.arrived /\ e.seen[e.delivered + 1].done
        THEN [e EXCEPT !.pulling = FALSE, !.delivered = @ + 1,
                       !.output = Append(@, e.seen[e.delivered + 1].out)]
        ELSE IF e.delivered >= e.arrived /\ e.ended
          THEN [e EXCEPT !.pulling = FALSE, !.terminal = "end"]
          ELSE e

\* the callback of the mapping function: cb(null, out) / cb(err)
mapDone(e, i, out) == drain([e EXCEPT !.seen[i] = [done |-> TRUE, out |-> out]])
mapFailed(e, i) ==
  drain([e EXCEPT !.seen[i] = [done |-> TRUE, out |-> Undefined], !.error = TRUE])

\* the promise of remoteData follows openConnection's while no stream is open
fetchFollows(e, i, conn) ==
  IF conn.pc = "rejected"
    THEN mapFailed([e EXCEPT !.fetch[i] = [@ EXCEPT !.conn = conn, !.pc = "failed"]], i)
    ELSE [e EXCEPT !.fetch[i] = [@ EXCEPT !.conn = conn, !.pc = "pending"]]

\* variant: a result whose value names no object is handed on as it came
expandQueryResultData_KeepsEnvelope(e, i, kind, book, dir) ==
  IF objectIdsForQueryResult(i, kind) = {}
    THEN mapDone(e, i, Envelope(i))
    ELSE fetchFollows(e, i, openConnection(e.peer, PROTOCOLS.node.data, book, dir))

\* _expandQueryResultData(peer, queryResult.value), lines 308-316, with the
\* then/catch of lines 287-289: a value without object ids resolves to itself;
\* otherwise remoteData(peer, objectIds), which starts with openConnection(peer)
expandQueryResultData(e, i, kind, book, dir) ==
  IF objectIdsForQueryResult(i, kind) = {}
    THEN mapDone(e, i, Value(i))
    ELSE fetchFollows(e, i, openConnection(e.peer, PROTOCOLS.node.data, book, dir))

\* the mapping function given to paramap, lines 282-290
expandElement(e, i, kind, book, dir) ==
  IF kind = "novalue"
    THEN mapDone(e, i, Envelope(i))
    ELSE expandQueryResultData(e, i, kind, book, dir)

\* pull-paramap, start: the next result is read from the query stream and the
\* mapping function is called on it; no width was given to paramap (line 282),
\* so nothing holds the read back
paramapRead(e, book, dir) ==
  LET i == e.arrived + 1
  IN  expandElement([e EXCEPT !.arrived = i,
                              !.seen = Append(@, [done |-> FALSE, out |-> Undefined]),
                              !.fetch = Append(@, NoFetch)],
                    i, e.input[i], book, dir)

\* the connection of remoteQueryStream (k = 0) or of the k-th result's fetch
connAt(e, k) == IF k = 0 THEN e.conn ELSE e.fetch[k].conn

\* the promise chain on that connection, after its resolution has moved on
connMoved(e, k, conn) ==
  IF k = 0
    THEN IF conn.pc = "rejected"
           THEN [e EXCEPT !.conn = conn, !.pc = "rejected", !.err = conn.err]
           ELSE [e EXCEPT !.conn = conn]
    ELSE fetchFollows(e, k, conn)

\* lines 258-265 once the stream is open: pull.once({keys})
fetchConnected(e, k) ==
  [e EXCEPT !.fetch[k].conn = connDialed(@),
            !.fetch[k].reqs =
               Append(@, [keys |-> objectIdsForQueryResult(k, e.input[k])])]

\* remoteQueryWithDataStream(peer, queryString), lines 277-278
CallExpand(q, peer) ==
  /\ exps[q].pc = "idle"
  /\ exps' = [exps EXCEPT ![q] =
               connMoved([IdleExp EXCEPT !.pc = "connecting", !.peer = peer], 0,
                         openConnection(peer, PROTOCOLS.node.query, peerBook, directory))]
  /\ UNCHANGED <<directory, peerBook, calls, regVars, srvVars, cliVars, setVars, cmdVars>>

\* the directory lookup of one of the call's resolutions goes on
ExpLookupDialOk(q, k) ==
  /\ k <= exps[q].arrived /\ connAt(exps[q], k).pc = "resolving"
  /\ connAt(exps[q], k).res.pc = "dialing"
  /\ exps' = [exps EXCEPT ![q] =
               connMoved(@, k, [connAt(@, k) EXCEPT !.res = lookupDialed(@)])]
  /\ UNCHANGED <<directory, peerBook, calls, regVars, srvVars, cliVars, setVars, cmdVars>>

ExpLookupDialFail(q, k) ==
  /\ k <= exps[q].arrived /\ connAt(exps[q], k).pc = "resolving"
  /\ connAt(exps[q], k).res.pc = "dialing"
  /\ exps' = [exps EXCEPT ![q] =
               connMoved(@, k, openConnectionThen(
                 [connAt(@, k) EXCEPT !.res = lookupDialFailed(@)]))]
  /\ UNCHANGED <<directory, peerBook, calls, regVars, srvVars, cliVars, setVars, cmdVars>>

ExpLookupResponse(q, k, resp) ==
  /\ k <= exps[q].arrived /\ connAt(exps[q], k).pc = "resolving"
  /\ connAt(exps[q], k).res.pc = "awaiting"
  /\ exps' = [exps EXCEPT ![q] =
               connMoved(@, k, openConnectionThen(
                 [connAt(@, k) EXCEPT !.res = lookupResponded(@, resp)]))]
  /\ UNCHANGED <<directory, peerBook, calls, regVars, srvVars, cliVars, setVars, cmdVars>>

ExpLookupStreamError(q, k) ==
  /\ k <= exps[q].arrived /\ connAt(exps[q], k).pc = "resolving"
  /\ connAt(exps[q], k).res.pc = "awaiting"
  /\ exps' = [exps EXCEPT ![q] =
               connMoved(@, k, openConnectionThen(
                 [connAt(@, k) EXCEPT !.res = lookupStreamFailed(@)]))]
  /\ UNCHANGED <<directory, peerBook, calls, regVars, srvVars, cliVars, setVars, cmdVars>>

\* the dial of node.query succeeds: the request is written, the promise
\* resolves to the stream; input is what the peer is going to send
ExpDialOk(q, input) ==
  /\ exps[q].pc = "connecting" /\ exps[q].conn.pc = "dialing"
  /\ exps' = [exps EXCEPT ![q].conn = connDialed(@), ![q].pc = "streaming",
                          ![q].written = opRequests("remoteQueryStream"),
                          ![q].input = input]
  /\ UNCHANGED <<directory, peerBook, calls, regVars, srvVars, cliVars, setVars, cmdVars>>

ExpDialFail(q) ==
  /\ exps[q].pc = "connecting" /\ exps[q].conn.pc = "dialing"
  /\ exps' = [exps EXCEPT ![q] = connMoved(@, 0, connDialFailed(@.conn))]
  /\ UNCHANGED <<directory, peerBook, calls, regVars, srvVars, cliVars, setVars, cmdVars>>

\* the consumer reads: the first read starts paramap
Pull(q) ==
  /\ exps[q].pc = "streaming"
  /\ ~exps[q].pulling /\ exps[q].terminal = "none"
  /\ exps' = [exps EXCEPT ![q] = drain([@ EXCEPT !.pulling = TRUE, !.started = TRUE])]
  /\ UNCHANGED <<directory, peerBook, calls, regVars, srvVars, cliVars, setVars, cmdVars>>

\* the next result of the query stream arrives
Arrive(q) ==
  /\ exps[q].pc = "streaming" /\ exps[q].started /\ ~exps[q].ended
  /\ exps[q].arrived < Len(exps[q].input)
  /\ exps' = [exps EXCEPT ![q] = paramapRead(@, peerBook, directory)]
  /\ UNCHANGED <<directory, peerBook, calls, regVars, srvVars, cliVars, setVars, cmdVars>>

\* the end of the query stream arrives
EndArrive(q) ==
  /\ exps[q].pc = "streaming" /\ exps[q].started /\ ~exps[q].ended
  /\ exps[q].arrived = Len(exps[q].input)
  /\ exps' = [exps EXCEPT ![q] = drain([@ EXCEPT !.ended = TRUE])]
  /\ UNCHANGED <<directory, peerBook, calls, regVars, srvVars, cliVars, setVars, cmdVars>>

\* the dial of node.data for the k-th result succeeds / fails
FetchDialOk(q, k) ==
  /\ k \in 1..exps[q].arrived
  /\ exps[q].fetch[k].pc = "pending" /\ exps[q].fetch[k].conn.pc = "dialing"
  /\ exps' = [exps EXCEPT ![q] = fetchConnected(@, k)]
  /\ UNCHANGED <<directory, peerBook, calls, regVars, srvVars, cliVars, setVars, cmdVars>>

FetchDialFail(q, k) ==
  /\ k \in 1..exps[q].arrived
  /\ exps[q].fetch[k].pc = "pending" /\ exps[q].fetch[k].conn.pc = "dialing"
  /\ exps' = [exps EXCEPT ![q] = fetchFollows(@, k, connDialFailed(@.fetch[k].conn))]
  /\ UNCHANGED <<directory, peerBook, calls, regVars, srvVars, cliVars, setVars, cmdVars>>

\* the data results of the k-th fetch are collected: expandQueryResult, cb
FetchResponse(q, k) ==
  /\ k \in 1..exps[q].arrived
  /\ exps[q].fetch[k].pc = "pending" /\ exps[q].fetch[k].conn.pc = "open"
  /\ exps' = [exps EXCEPT ![q] = mapDone([@ EXCEPT !.fetch[k].pc = "done"], k, Expanded(k))]
  /\ UNCHANGED <<directory, peerBook, calls, regVars, srvVars, cliVars, setVars, cmdVars>>

\* the stream of the k-th fetch fails: collect rejects, cb(err)
FetchStreamError(q, k) ==
  /\ k \in 1..exps[q].arrived
  /\ exps[q].fetch[k].pc = "pending" /\ exps[q].fetch[k].conn.pc = "open"
  /\ exps' = [exps EXCEPT ![q] = mapFailed([@ EXCEPT !.fetch[k].pc = "failed"], k)]
  /\ UNCHANGED <<directory, peerBook, calls, regVars, srvVars, cliVars, setVars, cmdVars>>

\* the call is over for its caller; the slot is free for the next call
ExpForget(q) ==
  /\ exps[q].pc = "rejected" \/ exps[q].terminal # "none"
  /\ exps' = [exps EXCEPT ![q] = IdleExp]
  /\ UNCHANGED <<directory, peerBook, calls, regVars, srvVars, cliVars, setVars, cmdVars>>

\* ------------------------------------------------------------------ listPeers
\* The listPeers command of the client and the RestClient it is built on.
\* A URL is a sequence of characters; the fixed path is spelled out.
DEFAULT_REQUEST_TIMEOUT == 15000
DirListPath == <<"d", "i", "r", "/", "l", "i", "s", "t">>
\* the texts of a response: characters and line ends
Bodies == UNION {[1..n -> {"Q", "\n"}] : n \in 0..MaxBodyLen}

\* options.apiUrl || '' and options.requestTimeout != null ? ... : DEFAULT
RestClient(options) ==
  [apiUrl |-> IF "apiUrl" \in DOMAIN options /\ options.apiUrl # <<>>
                THEN options.apiUrl ELSE <<>>,
   requestTimeout |-> IF "requestTimeout" \in DOMAIN options
                        THEN options.requestTimeout ELSE DEFAULT_REQUEST_TIMEOUT]

\* _makeUrl, lines 67-70
makeUrl(client, path) ==
  LET absPath == IF startsWith(path, "/") THEN path ELSE <<"/">> \o path
  IN  client.apiUrl \o absPath

\* req, lines 72-84: the URL and the arguments handed to fetch
req(client, path) ==
  [fullUrl |-> makeUrl(client, path), timeout |-> client.requestTimeout]
getRequest(client, path) == req(client, path)

\* s.split(sep): the pieces between the separators, empty ones included
RECURSIVE split(_, _)
split(s, sep) ==
  IF \A i \in 1..Len(s) : s[i] # sep
    THEN <<s>>
    ELSE LET i == CHOOSE k \in 1..Len(s) : s[k] = sep /\ \A j \in 1..(k - 1) : s[j] # sep
         IN  <<SubSeq(s, 1, i - 1)>> \o split(SubSeq(s, i + 1, Len(s)), sep)

\* listPeers, lines 243-247: the request, and what it makes of the text
listPeersRequest(client) == getRequest(client, DirListPath)
listPeersLines(s) == SelectSeq(split(s, "\n"), LAMBDA line : Len(line) > 0)

IdleCmd ==
  [pc |-> "none", opts |-> [peerUrl |-> <<>>], url |-> <<>>, timeout |-> 0,
   text |-> <<>>, stdout |-> <<>>, stderr |-> ""]

\* handler: new RestClient({peerUrl}), then client.listPeers()
ListPeersCommand(opts) ==
  /\ cmd.pc = "none"
  /\ LET client == RestClient([peerUrl |-> opts.peerUrl])
         request == listPeersRequest(client)
     IN  cmd' = [IdleCmd EXCEPT !.pc = "fetching", !.opts = opts,
                                !.url = request.fullUrl, !.timeout = request.timeout]
  /\ UNCHANGED <<directory, peerBook, calls, regVars, srvVars, cliVars, expVars, setVars>>

\* fetch resolves: a response that is not ok rejects with a RestError, whose
\* message the handler writes to the error stream
FetchResponds(ok, body) ==
  /\ cmd.pc = "fetching"
  /\ cmd' = IF ok THEN [cmd EXCEPT !.pc = "text", !.text = body]
                  ELSE [cmd EXCEPT !.pc = "failed", !.text = body, !.stderr = "RestError"]
  /\ UNCHANGED <<directory, peerBook, calls, regVars, srvVars, cliVars, expVars, setVars>>

\* fetch rejects (no connection, timeout, a URL it does not accept)
FetchRejects ==
  /\ cmd.pc = "fetching"
  /\ cmd' = [cmd EXCEPT !.pc = "failed", !.stderr = "FetchError"]
  /\ UNCHANGED <<directory, peerBook, calls, regVars, srvVars, cliVars, expVars, setVars>>

\* r.text() resolves: the lines are split, filtered and printed
PrintPeers ==
  /\ cmd.pc = "text"
  /\ cmd' = [cmd EXCEPT !.pc = "printed", !.stdout = listPeersLines(cmd.text)]
  /\ UNCHANGED <<directory, peerBook, calls, regVars, srvVars, cliVars, expVars, setVars>>

\* the process ends; the command can be run again
CommandExit ==
  /\ cmd.pc \in {"printed", "failed"}
  /\ cmd' = IdleCmd
  /\ UNCHANGED <<directory, peerBook, calls, regVars, srvVars, cliVars, expVars, setVars>>

\* constructor, lines 41-56: dirInfo is optional
Init ==
  /\ directory \in {NoPeer} \cup {PeerInfo(r.s, r.addr) : r \in InfoRefs}
  /\ peerBook = {}
  /\ calls = [c \in CallIds |-> IdleCall]
  /\ regs = [r \in RegIds |-> IdleReg]
  /\ now = 0
  /\ infoMessage = DEFAULT_INFO_MESSAGE  \* line 50, no infoMessage option
  /\ handlers = constructorHandlers
  /\ inbound = [s \in SessIds |-> NoSession]
  /\ ops = [o \in OpIds |-> IdleOp]
  /\ exps = [q \in ExpIds |-> IdleExp]
  /\ thrown = ""
  /\ cmd = IdleCmd

Next ==
  \/ \E c \in CallIds, ref \in LookupRefs : CallLookup(c, ref)
  \/ \E c \in CallIds, ref \in ResolveRefs : CallResolve(c, ref)
  \/ \E c \in CallIds : LookupDialOk(c)
  \/ \E c \in CallIds : LookupDialFail(c)
  \/ \E c \in CallIds : \E resp \in LookupResponses(calls[c].key) : LookupResponse(c, resp)
  \/ \E c \in CallIds : LookupStreamError(c)
  \/ \E c \in CallIds : CallReturn(c)
  \/ \E d \in InfoRefs \cup StrRefs : SetDirectory(d)
  \/ \E p \in NetPeers : PeerConnected(p)
  \/ \E p \in NetPeers : PeerDisconnected(p)

Spec == Init /\ [][Next]_vars

NextRegister ==
  \/ \E r \in RegIds : CallRegister(r)
  \/ \E r \in RegIds : RegisterDialOk(r)
  \/ \E r \in RegIds : RegisterDialFail(r)
  \/ \E r \in RegIds : HeartbeatTick(r)
  \/ \E r \in RegIds : Abort(r)
  \/ \E r \in RegIds : ConnectionEnd(r)
  \/ \E r \in RegIds : RegisterForget(r)
  \/ \E d \in InfoRefs \cup StrRefs : SetDirectory(d)
  \/ Tick

SpecRegister == Init /\ [][NextRegister]_vars

\* register and lookup side by side, under changes of the directory binding
NextBinding ==
  \/ \E c \in CallIds, ref \in PidRefs : CallLookup(c, ref)
  \/ \E c \in CallIds : LookupDialOk(c)
  \/ \E c \in CallIds : LookupDialFail(c)
  \/ \E c \in CallIds : \E resp \in LookupResponses(calls[c].key) : LookupResponse(c, resp)
  \/ \E c \in CallIds : CallReturn(c)
  \/ \E r \in RegIds : CallRegister(r)
  \/ \E r \in RegIds : RegisterDialOk(r)
  \/ \E r \in RegIds : RegisterDialFail(r)
  \/ \E r \in RegIds : HeartbeatTick(r)
  \/ \E r \in RegIds : ConnectionEnd(r)
  \/ \E r \in RegIds : RegisterForget(r)
  \/ \E d \in InfoRefs \cup MultiaddrRefs : SetDirectory(d)
  \/ Tick

SpecBinding == Init /\ [][NextBinding]_vars

\* the expansion pipeline for a peer given as a PeerInfo
NextExpand ==
  \/ \E q \in ExpIds, peer \in InfoRefs : CallExpand(q, peer)
  \/ \E q \in ExpIds, input \in Streams(ElementKinds) : ExpDialOk(q, input)
  \/ \E q \in ExpIds : ExpDialFail(q)
  \/ \E q \in ExpIds : Pull(q)
  \/ \E q \in ExpIds : Arrive(q)
  \/ \E q \in ExpIds : EndArrive(q)
  \/ \E q \in ExpIds, k \in 1..MaxResults : FetchDialOk(q, k)
  \/ \E q \in ExpIds, k \in 1..MaxResults : FetchDialFail(q, k)
  \/ \E q \in ExpIds, k \in 1..MaxResults : FetchResponse(q, k)
  \/ \E q \in ExpIds, k \in 1..MaxResults : FetchStreamError(q, k)
  \/ \E q \in ExpIds : ExpForget(q)

SpecExpand == Init /\ [][NextExpand]_vars

\* the expansion pipeline for a peer given as a PeerId, every result naming
\* objects
NextExpandResolve ==
  \/ \E q \in ExpIds, peer \in PidRefs : CallExpand(q, peer)
  \/ \E q \in ExpIds, k \in 0..MaxResults : ExpLookupDialOk(q, k)
  \/ \E q \in ExpIds, k \in 0..MaxResults : ExpLookupDialFail(q, k)
  \/ \E q \in ExpIds, k \in 0..MaxResults :
       \E resp \in LookupResponses(exps[q].peer.s) : ExpLookupResponse(q, k, resp)
  \/ \E q \in ExpIds, k \in 0..MaxResults : ExpLookupStreamError(q, k)
  \/ \E q \in ExpIds, input \in Streams({"ids"}) : ExpDialOk(q, input)
  \/ \E q \in ExpIds : ExpDialFail(q)
  \/ \E q \in ExpIds : Pull(q)
  \/ \E q \in ExpIds : Arrive(q)
  \/ \E q \in ExpIds : EndArrive(q)
  \/ \E q \in ExpIds, k \in 1..MaxResults : FetchDialOk(q, k)
  \/ \E q \in ExpIds, k \in 1..MaxResults : FetchDialFail(q, k)
  \/ \E q \in ExpIds, k \in 1..MaxResults : FetchResponse(q, k)
  \/ \E q \in ExpIds, k \in 1..MaxResults : FetchStreamError(q, k)
  \/ \E q \in ExpIds : ExpForget(q)
  \/ \E p \in NetPeers : PeerConnected(p)
  \/ \E p \in NetPeers : PeerDisconnected(p)

SpecExpandResolve == Init /\ [][NextExpandResolve]_vars

\* Every operation of the node under changes of the directory binding. The
\* operations are followed one at a time: each of them reads the binding, and
\* what it does to it does not depend on the calls beside it.
Quiet ==
  /\ \A c \in CallIds : calls[c].pc = "idle"
  /\ \A r \in RegIds : regs[r].pc = "idle"
  /\ \A o \in OpIds : ops[o].pc = "idle"
  /\ \A q \in ExpIds : exps[q].pc = "idle"
  /\ \A s \in SessIds : inbound[s].state = "none"

\* the query streams of at most one result
ShortStreams == {input \in Streams(ElementKinds) : Len(input) <= 1}

NextFrame ==
  \/ Quiet /\ \E c \in CallIds, ref \in LookupRefs : CallLookup(c, ref)
  \/ Quiet /\ \E c \in CallIds, ref \in ResolveRefs : CallResolve(c, ref)
  \/ Quiet /\ \E r \in RegIds : CallRegister(r)
  \/ Quiet /\ \E o \in OpIds, op \in OpNames, peer \in ResolveRefs : CallOp(o, op, peer)
  \/ Quiet /\ \E q \in ExpIds, peer \in InfoRefs \cup PidRefs : CallExpand(q, peer)
  \/ Quiet /\ \E s \in SessIds, proto \in NodeProtocols : InboundStream(s, proto)
  \/ \E c \in CallIds : LookupDialOk(c)
  \/ \E c \in CallIds : LookupDialFail(c)
  \/ \E c \in CallIds : \E resp \in LookupResponses(calls[c].key) : LookupResponse(c, resp)
  \/ \E c \in CallIds : LookupStreamError(c)
  \/ \E c \in CallIds : CallReturn(c)
  \/ \E r \in RegIds : RegisterDialOk(r)
  \/ \E r \in RegIds : RegisterDialFail(r)
  \/ \E r \in RegIds : Abort(r)
  \/ \E r \in RegIds : ConnectionEnd(r)
  \/ \E r \in RegIds : RegisterForget(r)
  \/ \E o \in OpIds : OpLookupDialOk(o)
  \/ \E o \in OpIds : OpLookupDialFail(o)
  \/ \E o \in OpIds : \E resp \in LookupResponses(ops[o].conn.res.key) : OpLookupResponse(o, resp)
  \/ \E o \in OpIds : OpLookupStreamError(o)
  \/ \E o \in OpIds : OpDialOk(o)
  \/ \E o \in OpIds : OpDialFail(o)
  \/ \E o \in OpIds : PeerPingReply(o)
  \/ \E o \in OpIds : PingResponse(o)
  \/ \E o \in OpIds : OpResponse(o)
  \/ \E o \in OpIds : OpStreamError(o)
  \/ \E o \in OpIds : OpReturn(o)
  \/ \E q \in ExpIds, k \in 0..MaxResults : ExpLookupDialOk(q, k)
  \/ \E q \in ExpIds, k \in 0..MaxResults : ExpLookupDialFail(q, k)
  \/ \E q \in ExpIds, k \in 0..MaxResults :
       \E resp \in LookupResponses(exps[q].peer.s) : ExpLookupResponse(q, k, resp)
  \/ \E q \in ExpIds, k \in 0..MaxResults : ExpLookupStreamError(q, k)
  \/ \E q \in ExpIds, input \in ShortStreams : ExpDialOk(q, input)
  \/ \E q \in ExpIds : ExpDialFail(q)
  \/ \E q \in ExpIds : Pull(q)
  \/ \E q \in ExpIds : Arrive(q)
  \/ \E q \in ExpIds : EndArrive(q)
  \/ \E q \in ExpIds, k \in 1..MaxResults : FetchDialOk(q, k)
  \/ \E q \in ExpIds, k \in 1..MaxResults : FetchDialFail(q, k)
  \/ \E q \in ExpIds, k \in 1..MaxResults : FetchResponse(q, k)
  \/ \E q \in ExpIds, k \in 1..MaxResults : FetchStreamError(q, k)
  \/ \E q \in ExpIds : ExpForget(q)
  \/ \E s \in SessIds : InboundRequest(s)
  \/ \E s \in SessIds : HandlerReply(s)
  \/ \E s \in SessIds : InboundClose(s)
  \/ \E d \in InfoRefs \cup StrRefs : SetDirectory(d)
  \/ \E p \in NetPeers : PeerConnected(p)
  \/ \E p \in NetPeers : PeerDisconnected(p)

SpecFrame == Init /\ [][NextFrame]_vars

NextServer ==
  \/ \E m \in InfoMessages : SetInfoMessage(m)
  \/ \E s \in SessIds, proto \in NodeProtocols : InboundStream(s, proto)
  \/ \E s \in SessIds : InboundRequest(s)
  \/ \E s \in SessIds : HandlerReply(s)
  \/ \E s \in SessIds : InboundClose(s)

SpecServer == Init /\ [][NextServer]_vars

NextConn ==
  \/ \E o \in OpIds, op \in OpNames, peer \in ResolveRefs : CallOp(o, op, peer)
  \/ \E o \in OpIds : OpLookupDialOk(o)
  \/ \E o \in OpIds : OpLookupDialFail(o)
  \/ \E o \in OpIds : \E resp \in LookupResponses(ops[o].conn.res.key) : OpLookupResponse(o, resp)
  \/ \E o \in OpIds : OpLookupStreamError(o)
  \/ \E o \in OpIds : OpDialOk(o)
  \/ \E o \in OpIds : OpDialFail(o)
  \/ \E o \in OpIds : PeerPingReply(o)
  \/ \E o \in OpIds : PingResponse(o)
  \/ \E o \in OpIds : OpResponse(o)
  \/ \E o \in OpIds : OpStreamError(o)
  \/ \E o \in OpIds : OpReturn(o)
  \/ \E p \in NetPeers : PeerConnected(p)
  \/ \E p \in NetPeers : PeerDisconnected(p)
  \/ \E s \in SessIds : InboundStream(s, PROTOCOLS.node.ping)
  \/ \E s \in SessIds : InboundRequest(s)
  \/ \E s \in SessIds : HandlerReply(s)
  \/ \E s \in SessIds : InboundClose(s)

SpecConn == Init /\ [][NextConn]_vars

\* The listPeers command on its own: every peerUrl, every response.
NextListPeers ==
  \/ \E peerUrl \in Strings : ListPeersCommand([peerUrl |-> peerUrl])
  \/ \E ok \in BOOLEAN, body \in Bodies : FetchResponds(ok, body)
  \/ FetchRejects
  \/ PrintPeers
  \/ CommandExit

SpecListPeers == Init /\ [][NextListPeers]_vars

\* ================================================================ claims
\* What the claims call a malformed / a well-formed peer id.
Malformed(s) == \E i \in 1..Len(s) : s[i] \notin Base58Alphabet
WellFormedId(ref) == ref.kind = "pid" \/ (ref.kind = "str" /\ ~Malformed(ref.s))
\* the step in which call c is made
Called(c) == calls[c].pc = "idle" /\ calls'[c].pc # "idle"

ErrInvalidPeerId == "Peer id is not a valid multihash"
ErrInvalidAddress == "Peer id is not a valid multiaddr"
ErrNoDirLookup == "No known directory server, cannot lookup"
ErrNoDirRegister == "No known directory server, cannot register"

C2_CachedEntryNoDial ==
  [][\A c \in CallIds :
       (Called(c) /\ WellFormedId(calls'[c].ref) /\ calls'[c].ref.s \in peerBook)
         => /\ calls'[c].pc = "resolved"
            /\ calls'[c].value = PeerInfo(calls'[c].ref.s, "book")
            /\ calls'[c].dials = <<>>
            /\ calls'[c].reqs = <<>>
            /\ calls'[c].dirReads = 0]_vars

C2_Witness ==
  \E c \in CallIds :
    /\ calls[c].op = "resolve" /\ calls[c].pc = "resolved"
    /\ calls[c].value.addr = "book"
    /\ directory = NoPeer

\* C3: lookup(p) of a well-formed p with no peer book entry reads the peer book
\* once and takes its failure as a miss: with no directory binding the call is
\* rejected with the no-directory error and nothing is dialed, and with a
\* binding it goes on to the directory; the peer book's failure is never the
\* call's error.
C3_MissWithoutDirectory ==
  [][\A c \in CallIds :
       (Called(c) /\ calls'[c].op = "lookup" /\ WellFormedId(calls'[c].ref)
          /\ calls'[c].ref.s \notin peerBook)
         => /\ calls'[c].bookReads = 1
            /\ IF directory = NoPeer
                 THEN /\ calls'[c].pc = "rejected"
                      /\ calls'[c].err = ErrNoDirLookup
                      /\ calls'[c].dials = <<>>
                 ELSE /\ calls'[c].pc = "dialing"
                      /\ calls'[c].err = ""]_vars

C3_Witness ==
  \E c \in CallIds :
    /\ calls[c].op = "lookup" /\ calls[c].pc = "rejected"
    /\ calls[c].err = ErrNoDirLookup
    /\ calls[c].bookReads = 1
    /\ calls[c].dials = <<>>

\* C4: a lookup that missed the peer book with a binding configured has dialed
\* the directory exactly once, on dir.lookup; once connected it has sent exactly
\* one request, carrying p; once resolved it has read exactly one response, and
\* a response with no record resolves the call to null (it is not rejected).
WentToDirectory(c) ==
  /\ calls[c].op = "lookup"
  /\ calls[c].pc # "idle"
  /\ calls[c].dirReads = 1
  /\ calls[c].err # ErrNoDirLookup

C4_DirectoryLookupOnce ==
  \A c \in CallIds :
    WentToDirectory(c)
      => /\ Len(calls[c].dials) = 1
         /\ calls[c].dials[1].proto = "dir.lookup"
         /\ calls[c].dials[1].to # NoPeer
         /\ calls[c].pc = "dialing" => calls[c].reqs = <<>>
         /\ calls[c].pc \in {"awaiting", "resolved"}
              => calls[c].reqs = <<[id |-> calls[c].ref.s]>>
         /\ calls[c].pc # "resolved" => calls[c].resps = <<>>
         /\ calls[c].pc = "resolved"
              => /\ Len(calls[c].resps) = 1
                 /\ calls[c].value = calls[c].resps[1].peer

C4_Witness ==
  \E c \in CallIds :
    /\ WentToDirectory(c)
    /\ calls[c].pc = "resolved"
    /\ calls[c].resps = <<[peer |-> NoPeer]>>
    /\ calls[c].value = NoPeer

\* the step in which register call r is made
Registered(r) == regs[r].pc = "idle" /\ regs'[r].pc # "idle"

\* C5: register() with no directory binding is rejected with the no-directory
\* error, dials nothing and starts no heartbeat loop; no registration message
\* is ever emitted for that call.
C5_RegisterWithoutDirectory ==
  [][\A r \in RegIds :
       /\ (Registered(r) /\ directory = NoPeer)
            => /\ regs'[r].pc = "rejected"
               /\ regs'[r].err = ErrNoDirRegister
       /\ regs'[r].err = ErrNoDirRegister
            => /\ regs'[r].pc = "rejected"
               /\ regs'[r].dials = <<>>
               /\ regs'[r].loop = "none"
               /\ regs'[r].conn = "none"
               /\ regs'[r].sent = 0]_vars

C5_Witness ==
  \E r \in RegIds :
    /\ regs[r].pc = "rejected" /\ regs[r].err = ErrNoDirRegister
    /\ regs[r].dials = <<>> /\ regs[r].sent = 0

\* C6: a running heartbeat loop has emitted one message when it started and
\* one more for each 300 seconds since, neither more nor fewer (a message whose
\* interval has just elapsed may be the next step); a loop that has ended has
\* emitted no more than that.
ClaimedInterval == (300 * 1000) \div TimeUnitMs
Elapsed(r) == now - regs[r].start

C6_HeartbeatEvery300s ==
  \A r \in RegIds :
    /\ regs[r].loop = "running"
         => \/ regs[r].sent = 1 + (Elapsed(r) \div ClaimedInterval)
            \/ /\ Elapsed(r) > 0
               /\ Elapsed(r) % ClaimedInterval = 0
               /\ regs[r].sent = Elapsed(r) \div ClaimedInterval
    /\ regs[r].loop = "ended"
         => regs[r].sent <= 1 + (Elapsed(r) \div ClaimedInterval)

C6_Witness ==
  \E r \in RegIds :
    /\ regs[r].loop = "running"
    /\ regs[r].sent = 3
    /\ Elapsed(r) = 2 * ClaimedInterval

\* C7: what register() returns to its caller holds the abort handle of the
\* loop it started; after an abort no further message is emitted, and a second
\* abort changes nothing.
C7_AbortHandleGivenToCaller ==
  [][\A r \in RegIds :
       /\ regs'[r].pc = "resolved" => "abortable" \in regs'[r].returned
       /\ (regs[r].abortable = "aborted" /\ regs'[r].pc # "idle")
            => regs'[r].sent = regs[r].sent
       /\ (regs[r].abortable = "aborted" /\ regs'[r].aborts > regs[r].aborts)
            => regs'[r] = [regs[r] EXCEPT !.aborts = @ + 1]]_vars

\* C8: register() with a binding resolves to true in the step in which the dial
\* succeeds and the loop is started, so a resolved call may have a loop still
\* running; a failed dial rejects the call with the dial's error and no loop is
\* ever started for it.
C8_RegisterResolvesOnDial ==
  [][\A r \in RegIds :
       /\ (regs[r].pc = "dialing" /\ regs'[r].pc # "dialing")
            => \/ /\ regs'[r].pc = "resolved"
                  /\ regs'[r].value = TRUE
                  /\ regs'[r].conn = "open"
                  /\ regs'[r].loop # "none"
               \/ /\ regs'[r].pc = "rejected"
                  /\ regs'[r].err = "dial failed"
       /\ regs'[r].loop # "none" => regs'[r].pc = "resolved"
       /\ regs'[r].pc = "rejected"
            => /\ regs'[r].loop = "none"
               /\ regs'[r].conn = "none"
               /\ regs'[r].sent = 0]_vars

C8_Witness ==
  \E r \in RegIds :
    /\ regs[r].pc = "resolved" /\ regs[r].value = TRUE
    /\ regs[r].loop = "running"
    /\ regs[r].sent >= 2

\* C9: once the registration connection has ended, the loop is over: no message
\* is emitted, the node dials nothing for that call, the result of register()
\* stays as it was, and the end of the connection has been notified exactly
\* once.
C9_ConnectionDropEndsLoop ==
  [][\A r \in RegIds :
       /\ regs'[r].conn = "closed"
            => regs'[r].loop = "ended" /\ regs'[r].endNotes = 1
       /\ regs'[r].conn = "open" => regs'[r].endNotes = 0
       /\ (regs[r].conn = "closed" /\ regs'[r].pc # "idle")
            => /\ regs'[r].sent = regs[r].sent
               /\ regs'[r].dials = regs[r].dials
               /\ regs'[r].pc = regs[r].pc
               /\ regs'[r].value = regs[r].value
               /\ regs'[r].endNotes = regs[r].endNotes]_vars

C9_Witness ==
  \E r \in RegIds :
    /\ regs[r].conn = "closed"
    /\ regs[r].abortable = "live"
    /\ regs[r].pc = "resolved"
    /\ regs[r].sent >= 2
    /\ regs[r].endNotes = 1
    /\ now >= regs[r].nextDue

\* C10: resolve of a PeerInfo returns it as it is, reading neither the peer
\* book nor the binding and dialing nothing; resolve of a string that begins
\* with "/" decodes it, again with no peer book, binding or dial, and is
\* rejected as an invalid address when it does not decode; every other
\* reference gets what lookup gives for it.
C10_ResolveDispatch ==
  [][\A c \in CallIds :
       (Called(c) /\ calls'[c].op = "resolve")
         => LET ref == calls'[c].ref
                local == /\ calls'[c].bookReads = 0
                         /\ calls'[c].dirReads = 0
                         /\ calls'[c].dials = <<>>
            IN  /\ ref.kind = "info"
                     => /\ calls'[c].pc = "resolved"
                        /\ calls'[c].value = PeerInfo(ref.s, ref.addr)
                        /\ local
                /\ (ref.kind = "str" /\ startsWith(ref.s, "/"))
                     => /\ local
                        /\ IF Len(ref.s) >= 2 /\ ~Malformed(Tail(ref.s))
                             THEN /\ calls'[c].pc = "resolved"
                                  /\ calls'[c].value = PeerInfo(Tail(ref.s), "multiaddr")
                             ELSE /\ calls'[c].pc = "rejected"
                                  /\ calls'[c].err = ErrInvalidAddress
                /\ (ref.kind = "pid" \/ (ref.kind = "str" /\ ~startsWith(ref.s, "/")))
                     => calls'[c] =
                          [lookup(StartCall("lookup", ref), ref, peerBook, directory)
                             EXCEPT !.op = "resolve"]]_vars

C10_Witness ==
  \E c \in CallIds :
    /\ calls[c].op = "resolve"
    /\ calls[c].ref.kind = "str" /\ startsWith(calls[c].ref.s, "/")
    /\ calls[c].pc = "rejected"
    /\ calls[c].err = ErrInvalidAddress
    /\ directory # NoPeer

\* ------------------------------------------------------------------ C11
Absent(o) == ops[o].conn.res.pc = "resolved" /\ ops[o].conn.res.value = NoPeer

\* C11: when the resolution of the peer reference yields absence, the
\* resolution itself has returned absence without an error, and the operation
\* that needed the connection (ping, remoteNodeInfo, the query and data streams
\* and their collected variants) is rejected with the peer-not-found error
\* without its protocol ever being dialed.
C11_AbsentPeerNotDialed ==
  \A o \in OpIds :
    /\ Absent(o)
         => /\ ops[o].conn.res.err = ""
            /\ ops[o].pc = "rejected"
            /\ ops[o].err = ErrUnableToLocate
            /\ ops[o].conn.dials = <<>>
            /\ ops[o].written = 0
    /\ \A i \in 1..Len(ops[o].conn.dials) : ops[o].conn.dials[i].to # NoPeer

C11_Witness ==
  \E o \in OpIds :
    /\ Absent(o)
    /\ ops[o].op = "remoteQueryWithData"
    /\ ops[o].conn.res.dials # <<>>
    /\ ops[o].pc = "rejected"

\* ------------------------------------------------------------------ C13
\* the acknowledgments a ping handler has written on a stream of which the
\* client has read taken replies: one per decoded request, in request order
AcksInOrder(sess, taken) ==
  /\ sess.decoded + Len(sess.inbox) = sess.written
  /\ Len(sess.out) + taken = sess.decoded
  /\ \A i \in 1..Len(sess.out) : sess.out[i] = [re |-> taken + i, body |-> Pong]

\* C13: ping writes exactly one request and resolves to true once it has read
\* exactly one response; a ping handler writes exactly one acknowledgment for
\* each request it has decoded, in the order of the requests, and none before
\* a request was decoded.
C13_PingOneRequestOneAck ==
  /\ \A o \in OpIds :
       ops[o].op = "ping"
         => /\ ops[o].written = (IF ops[o].conn.pc = "open" THEN 1 ELSE 0)
            /\ ops[o].sess.written = ops[o].written
            /\ AcksInOrder(ops[o].sess, ops[o].read)
            /\ ops[o].pc = "resolved" <=> ops[o].read = 1
            /\ ops[o].pc = "resolved" => ops[o].value = "true"
  /\ \A s \in SessIds :
       (inbound[s].proto = PROTOCOLS.node.ping /\ inbound[s].state = "open")
         => AcksInOrder(inbound[s], 0)

C13_Witness ==
  /\ \E o \in OpIds :
       ops[o].op = "ping" /\ ops[o].pc = "resolved" /\ ops[o].sess.decoded = 1
  /\ \E s \in SessIds :
       inbound[s].proto = PROTOCOLS.node.ping /\ Len(inbound[s].out) = MaxReqs

\* ------------------------------------------------------------------ C12
Replied(s) == Len(inbound'[s].out) > Len(inbound[s].out)
LastReply(s) == inbound'[s].out[Len(inbound'[s].out)]
IdSession(sess) == sess.proto = PROTOCOLS.node.id /\ sess.state = "open"

\* C12 as stated: every reply of the identity handler carries the node's own
\* peer id and the info string configured when the request is decoded, so a
\* setInfoMessage between the opening of the stream and the arrival of the
\* request is reflected.
C12_InfoReadAtRequestDecode ==
  [][\A s \in SessIds :
       (IdSession(inbound[s]) /\ Replied(s))
         => LastReply(s).body = NodeInfo(SelfId, infoMessage)]_vars

\* C12 amended: the identity handler builds its response when it is called
\* with the new inbound stream, from the node's own peer id and the info string
\* configured at that moment; every reply on that stream carries that response,
\* whatever setInfoMessage does after the stream was opened.
C12_InfoReadAtStreamOpen ==
  [][\A s \in SessIds :
       /\ (inbound[s].state = "none" /\ IdSession(inbound'[s]))
            => inbound'[s].response = NodeInfo(SelfId, infoMessage)
       /\ (IdSession(inbound[s]) /\ Replied(s))
            => /\ LastReply(s).body = inbound[s].response
               /\ inbound'[s].response = inbound[s].response]_vars

\* a reply was sent that carries an info string replaced before the request
\* was decoded
C12_Witness ==
  \E s \in SessIds :
    /\ IdSession(inbound[s])
    /\ inbound[s].out # <<>>
    /\ inbound[s].out[1].body = NodeInfo(SelfId, "m1")
    /\ infoMessage = "m2"

\* ------------------------------------------------------------------ C14
\* the pipeline has handed everything on and ended: no fetch has failed
EndedWell(e) == e.terminal = "end"

\* C14 as stated: when no fetch fails, the output has as many elements as the
\* input, and every input element that references no object id appears in the
\* output identical to the input element, envelope included.
C14_ZeroIdElementsUnchanged ==
  \A q \in ExpIds :
    EndedWell(exps[q])
      => /\ Len(exps[q].output) = Len(exps[q].input)
         /\ \A i \in 1..Len(exps[q].input) :
              objectIdsForQueryResult(i, exps[q].input[i]) = {}
                => exps[q].output[i] = Envelope(i)

\* C14 amended: when no fetch fails, the output has as many elements as the
\* input, in input order; an input element without a value appears as the
\* element itself, one whose value references no object id appears as that
\* value alone, without the envelope it came in, and one whose value
\* references object ids appears as its expanded value.
C14_ZeroIdElementsValueOnly ==
  \A q \in ExpIds :
    EndedWell(exps[q])
      => /\ Len(exps[q].output) = Len(exps[q].input)
         /\ \A i \in 1..Len(exps[q].input) :
              exps[q].output[i] =
                CASE exps[q].input[i] = "novalue" -> Envelope(i)
                  [] exps[q].input[i] = "noids" -> Value(i)
                  [] OTHER -> Expanded(i)

C14_Witness ==
  \E q \in ExpIds :
    /\ EndedWell(exps[q])
    /\ Len(exps[q].input) = MaxResults
    /\ {exps[q].input[i] : i \in 1..MaxResults} = ElementKinds

\* ------------------------------------------------------------------ C15
\* the data fetches of the call that have been started and have not settled
InFlight(e) == Cardinality({k \in 1..e.arrived : e.fetch[k].pc = "pending"})

\* C15: the number of data fetches in flight stays under a fixed bound that
\* does not depend on the length of the stream. Such a bound keeps the number
\* below the length of every stream longer than it; it is stated here for the
\* longest streams, of MaxResults elements.
C15_BoundedFanOut ==
  \A q \in ExpIds : InFlight(exps[q]) < MaxResults

\* ------------------------------------------------------------------ C16
\* three elements A, B, C that all reference object ids, all read by the
\* pipeline, of whose fetches B's alone has failed
OnlySecondFailed(e) ==
  /\ Len(e.input) = 3 /\ \A i \in 1..3 : e.input[i] = "ids"
  /\ e.arrived = 3
  /\ e.fetch[1].pc # "failed" /\ e.fetch[2].pc = "failed" /\ e.fetch[3].pc # "failed"

\* C16: in a stream A, B, C where only B's fetch fails, the consumer has
\* received A's expanded value when the error surfaces; the error is the
\* terminal outcome at B's position, and C's fetch has been attempted.
C16_FirstDeliveredBeforeError ==
  \A q \in ExpIds :
    (OnlySecondFailed(exps[q]) /\ exps[q].terminal = "error")
      => /\ exps[q].output = <<Expanded(1)>>
         /\ exps[q].fetch[3].pc # "none"

\* ------------------------------------------------------------------ C18
\* the calls of _lookupIfNeeded made for the call and for its fetches, and
\* those of them that dialed the directory
Resolutions(e) == {k \in 0..e.arrived : connAt(e, k).res.pc # "idle"}
DirectoryDials(e) == {k \in 0..e.arrived : connAt(e, k).res.dials # <<>>}

\* C18: a call of remoteQueryWithData(Stream) given a peer id resolves it
\* once, at its start, so that the directory is dialed at most once for it,
\* however many elements need a data fetch, and every data fetch dials the
\* peer info that this one resolution gave.
C18_ResolvedOnce ==
  \A q \in ExpIds :
    exps[q].peer.kind = "pid"
      => /\ Cardinality(Resolutions(exps[q])) <= 1
         /\ Cardinality(DirectoryDials(exps[q])) <= 1
         /\ \A k \in 1..exps[q].arrived :
              \A n \in 1..Len(exps[q].fetch[k].conn.dials) :
                exps[q].fetch[k].conn.dials[n].to = exps[q].conn.res.value

\* ------------------------------------------------------------------ C19
\* C19: each element that references object ids causes exactly one data fetch,
\* one dial of node.data with all ids of the element in one request; elements
\* without ids or without a value cause none. Stated of the elements whose
\* mapping has settled.
C19_OneFetchPerElement ==
  \A q \in ExpIds : \A k \in 1..exps[q].arrived :
    IF objectIdsForQueryResult(k, exps[q].input[k]) = {}
      THEN exps[q].fetch[k] = NoFetch
      ELSE exps[q].fetch[k].pc \in {"done", "failed"}
             => /\ Len(exps[q].fetch[k].conn.dials) = 1
                /\ exps[q].fetch[k].conn.dials[1].proto = PROTOCOLS.node.data
                /\ Len(exps[q].fetch[k].reqs) <= 1
                /\ \A n \in 1..Len(exps[q].fetch[k].reqs) :
                     exps[q].fetch[k].reqs[n].keys =
                       objectIdsForQueryResult(k, exps[q].input[k])

\* ------------------------------------------------------------------ C17
\* C17: a register() or lookup() call that dials dials the directory binding
\* that was current when the call was made; the dial it has issued, and the
\* heartbeats that follow on the connection of that dial, keep that target
\* whatever setDirectory does afterwards, and a call made after a change of
\* the binding dials the new binding.
C17_BindingReadAtCallTime ==
  [][/\ \A c \in CallIds :
          /\ (calls[c].pc = "idle" /\ calls'[c].dials # <<>>)
               => calls'[c].dials = <<[to |-> directory, proto |-> PROTOCOLS.dir.lookup]>>
          /\ (calls[c].dials # <<>> /\ calls'[c].pc # "idle")
               => calls'[c].dials = calls[c].dials
     /\ \A r \in RegIds :
          /\ (regs[r].pc = "idle" /\ regs'[r].dials # <<>>)
               => regs'[r].dials = <<[to |-> directory, proto |-> PROTOCOLS.dir.register]>>
          /\ (regs[r].dials # <<>> /\ regs'[r].pc # "idle")
               => regs'[r].dials = regs[r].dials
          /\ regs'[r].sent > regs[r].sent
               => regs'[r].conn = "open" /\ Len(regs'[r].dials) = 1]_vars

\* a lookup is waiting on, and heartbeats are flowing over, a dial to a
\* directory that is no longer the binding
C17_Witness ==
  /\ \E c \in CallIds :
       /\ calls[c].pc = "awaiting"
       /\ calls[c].dials[1].to # directory
  /\ \E r \in RegIds :
       /\ regs[r].sent >= 2
       /\ regs[r].loop = "running"
       /\ regs[r].dials[1].to # directory
       /\ directory # NoPeer

\* ------------------------------------------------------------------ C20
\* C20 as stated: after construction the node has an inbound handler for each
\* of node.ping, node.id, node.query and node.data, so that no inbound stream
\* on one of them is refused.
C20_FourHandlers ==
  /\ handlers = NodeProtocols
  /\ \A s \in SessIds : inbound[s].state # "refused"

\* C20 amended: after construction the node has inbound handlers for node.ping
\* and node.id only; an inbound stream on one of these is handed to its
\* handler, and one on node.query or node.data is refused and never answered.
C20_PingAndIdHandlers ==
  /\ handlers = {PROTOCOLS.node.ping, PROTOCOLS.node.id}
  /\ \A s \in SessIds :
       /\ inbound[s].state = "open"
            => inbound[s].proto \in {PROTOCOLS.node.ping, PROTOCOLS.node.id}
       /\ inbound[s].state = "refused"
            => /\ inbound[s].proto \in {PROTOCOLS.node.query, PROTOCOLS.node.data}
               /\ inbound[s].out = <<>>

C20_Witness ==
  \E s \in SessIds :
    /\ inbound[s].proto = PROTOCOLS.node.query
    /\ inbound[s].state = "refused"

\* ------------------------------------------------------------------ C21
\* C21: the directory binding changes only in a step that is a call of
\* setDirectory which returns: register, lookup, _lookupIfNeeded, the
\* operations that open a connection, the query and data operations and the
\* inbound handlers leave it as it is, whether they succeed or fail; and a
\* call of setDirectory with a string that cannot be decoded throws and leaves
\* the binding it found.
C21_BindingChangesOnlyBySetDirectory ==
  [][/\ directory' # directory
          => \E d \in InfoRefs \cup StrRefs : ~setDirectoryThrows(d) /\ SetDirectory(d)
     /\ \A d \in StrRefs :
          (inflateMultiaddrThrows(d.s) /\ SetDirectory(d))
            => (directory' = directory /\ thrown' = ErrInflate)]_vars

\* a call of setDirectory has thrown and the binding set before it is still
\* in place, while a ping that was rejected is with its caller
C21_Witness ==
  /\ thrown = ErrInflate
  /\ directory = PeerInfo(CHOOSE p \in NetPeers : TRUE, "multiaddr")
  /\ \E o \in OpIds : ops[o].op = "ping" /\ ops[o].pc = "rejected"

\* ------------------------------------------------------------------ C22
\* C22: the listPeers command sends its request to the node whose URL it was
\* given: the URL handed to fetch is opts.peerUrl followed by "/dir/list",
\* for every peerUrl.
C22_RequestGoesToPeerUrl ==
  cmd.pc # "none" => cmd.url = cmd.opts.peerUrl \o <<"/">> \o DirListPath

================================================================
